---- MODULE Spec2Model ----
(***************************************************************************)
(* A model of the gophercoin ledger (src/blockchain.go) and of the mining  *)
(* scheduler of its daemon (src/gcd/servers.go).                           *)
(*                                                                         *)
(* Byte strings are sequences.  A digest is modelled as a collision-free   *)
(* encoding of the digested content: a transaction identity is one byte,   *)
(* the place of the transaction's inputs and outputs in TxContents; a      *)
(* block hash is the tuple of the block's timestamp, the identities of its *)
(* transactions and its previous hash.  The empty byte string (a nil       *)
(* slice) is the empty sequence.                                           *)
(***************************************************************************)
EXTENDS Integers, Sequences, FiniteSets, TLC

VARIABLES
    bucket,         \* the "blocks" bucket of the store: key -> value
    tip,            \* Blockchain.tip of the handle the server holds
    utxoSet,        \* Server.utxoSet: set of <<txid, output index>> unspent
    memPool,        \* Server.memPool: txid -> Transaction
    miningAddress,  \* Server.miningAddress
    miningTxs,      \* Server.miningTxs
    minerPc,        \* position of the StartMiner goroutine
    txs,            \* mineTxs: the local slice txs
    newBlock,       \* mineTxs: the block MineBlock handed back
    taPc,           \* position of the timeAdjustment goroutine
    timeMsg,        \* the value timeAdjustment is sending on Server.timeChan
    now,            \* the wall clock, in minutes
    outbox,         \* inventory messages the latest mineTxs handed to sendInv
    \* history variables, read by the properties only
    mined,          \* MineBlock calls whose store writes all succeeded
    fault,          \* the store failure injected into the last MineBlock call
    faults,         \* MineBlock calls that met a store failure
    committedTip,   \* hash of the block most recently committed with its tip
    inflight,       \* executions of mineTxs entered and not yet left
    poolAtStart,    \* memPool as mineTxs found it on entry
    raisedInMining, \* the send on timeChan began while miningTxs was set
    quitReceived    \* the miner has received the stop signal

vars == <<bucket, tip, utxoSet, memPool, miningAddress, miningTxs,
          minerPc, txs, newBlock, taPc, timeMsg, now,
          outbox, mined, fault, faults, committedTip,
          inflight, poolAtStart, raisedInMining, quitReceived>>

----------------------------------------------------------------------------
\* Bounds of the model.

MaxTime == 3
MaxAttempts == 2
MaxFaults == 1
MaxAmount == 11

\* the width in bits of a block hash read as a number
HashBits == 28

----------------------------------------------------------------------------
\* Program constants.

\* []byte("l"), the key CreateBlockchain stores the tip under.
keyL == <<108>>

\* []byte("1"), the key MineBlock and NewBlockchain use for the tip.
key1 == <<49>>

\* len(s.memPool) > 2
memPoolThreshold == 2

\* msg > float64(2) in StartMiner
minerTimeThreshold == 2

\* diff.Minutes() > float64(1) in timeAdjustment
monitorTimeThreshold == 1

\* the fixed reward of a coinbase transaction
subsidy == 10

\* constants.go line 10: the leading zero bits a block hash must have
targetBits == 24

\* the values the leading bits of a digest take as the nonce counts up
NonceCycle == 16

Nil == <<>>

genesisCoinbaseData == "The Times"

\* the address the genesis reward is paid to, and the other wallet addresses
GenesisAddress == "A"

WalletAddress == "M"

Addresses == {"A", "B", "M"}

nodeAddress == "self"

knownNodes == <<[Address |-> "seed"], [Address |-> "self"], [Address |-> "peer"]>>

----------------------------------------------------------------------------
\* Transactions.

TXOutput(value, to) == [Value |-> value, ScriptPubKey |-> to]

TXInput(txid, vout, sig) == [Txid |-> txid, Vout |-> vout, ScriptSig |-> sig]

\* The identity of a transaction is the digest of its inputs and outputs, a
\* short byte string.  No two contents share a digest: the contents that
\* occur are listed, and the digest of one is the byte of its place.
TxContents ==
    << <<<<TXInput(Nil, -1, genesisCoinbaseData)>>,
         <<TXOutput(subsidy, GenesisAddress)>>>>,
       <<<<TXInput(Nil, -1, "")>>, <<TXOutput(subsidy, WalletAddress)>>>>,
       <<<<TXInput(<<1>>, 0, "A")>>, <<TXOutput(4, "A"), TXOutput(6, "A")>>>>,
       <<<<TXInput(<<3>>, 0, "A")>>, <<TXOutput(4, "B")>>>>,
       <<<<TXInput(<<1>>, 0, "A")>>, <<TXOutput(10, "B")>>>> >>

TxID(vin, vout) ==
    <<CHOOSE i \in DOMAIN TxContents : TxContents[i] = <<vin, vout>>>>

Transaction(vin, vout) == [ID |-> TxID(vin, vout), Vin |-> vin, Vout |-> vout]

NewCoinbaseTX(to, data) ==
    Transaction(<<TXInput(Nil, -1, data)>>, <<TXOutput(subsidy, to)>>)

IsCoinbase(tx) ==
    /\ Len(tx.Vin) = 1
    /\ Len(tx.Vin[1].Txid) = 0
    /\ tx.Vin[1].Vout = -1

CanBeUnlockedWith(out, address) == out.ScriptPubKey = address

CanUnlockOutputWith(in, address) == in.ScriptSig = address

\* The transactions peers submit.  TxSplit spends the genesis reward into
\* two outputs of its owner; TxSpend spends the first of them; TxDouble
\* spends the genesis reward a second time.
GenesisTx == NewCoinbaseTX(GenesisAddress, genesisCoinbaseData)

TxSplit ==
    Transaction(<<TXInput(GenesisTx.ID, 0, "A")>>,
                <<TXOutput(4, "A"), TXOutput(6, "A")>>)

TxSpend ==
    Transaction(<<TXInput(TxSplit.ID, 0, "A")>>, <<TXOutput(4, "B")>>)

TxDouble ==
    Transaction(<<TXInput(GenesisTx.ID, 0, "A")>>, <<TXOutput(10, "B")>>)

Submitted == {TxSplit, TxSpend, TxDouble}

----------------------------------------------------------------------------
\* Blocks and the store.

HashTransactions(transactions) ==
    [i \in 1..Len(transactions) |-> transactions[i].ID]

\* The digest of a block's timestamp, transactions, previous hash and nonce.
BlockHash(timestamp, transactions, prevBlockHash, nonce) ==
    <<timestamp, HashTransactions(transactions), prevBlockHash, nonce>>

RECURSIVE SumBytes(_, _)
SumBytes(ids, pos) ==
    IF pos > Len(ids) THEN 0 ELSE ids[pos][1] + SumBytes(ids, pos + 1)

\* A hash read as an unsigned big-endian integer of HashBits bits.  The
\* digest here spreads its input over the NonceCycle values of the leading
\* bits: they follow the digested fields and move with every nonce; the
\* bits below them hold the nonce.
RECURSIVE HashValue(_)
HashValue(hash) ==
    IF hash = Nil
    THEN 0
    ELSE LET seed == (hash[1] + SumBytes(hash[2], 1) + HashValue(hash[3]))
                         % NonceCycle
         IN  ((seed + hash[4]) % NonceCycle) * (2 ^ HashBits \div NonceCycle)
             + hash[4]

\* target := big.NewInt(1); target.Lsh(target, uint(256 - targetBits)),
\* with the width of the digest of the model in place of 256.
Target == 2 ^ (HashBits - targetBits)

\* The proof-of-work search: the first nonce, counting from nonce, whose
\* hash is below the target.
RECURSIVE Run(_, _, _, _)
Run(timestamp, transactions, prevBlockHash, nonce) ==
    IF HashValue(BlockHash(timestamp, transactions, prevBlockHash, nonce)) < Target
    THEN nonce
    ELSE Run(timestamp, transactions, prevBlockHash, nonce + 1)

NewBlock(prevBlockHash, transactions, timestamp) ==
    LET nonce == Run(timestamp, transactions, prevBlockHash, 0)
    IN  [Timestamp     |-> timestamp,
         Transactions  |-> transactions,
         PrevBlockHash |-> prevBlockHash,
         Nonce         |-> nonce,
         Hash          |-> BlockHash(timestamp, transactions, prevBlockHash, nonce)]

genesisBlock(coinbase, timestamp) == NewBlock(Nil, <<coinbase>>, timestamp)

\* gob encoding of a block: a one-element byte string holding the block;
\* nothing else decodes.
SerializeBlock(block) == <<block>>

DeserializeBlock(encoded) ==
    IF Len(encoded) = 1
    THEN [block |-> encoded[1], err |-> FALSE]
    ELSE [block |-> Nil, err |-> TRUE]

\* bolt's Bucket.Get: nil when the key is absent.
Get(b, key) == IF key \in DOMAIN b THEN b[key] ELSE Nil

\* bolt's Bucket.Put.
Put(b, key, value) ==
    [k \in DOMAIN b \cup {key} |-> IF k = key THEN value ELSE b[k]]

----------------------------------------------------------------------------
\* The iterator and the queries of the ledger.

\* BlockchainIterator.Next at currentHash: the block read, and whether the
\* read left the block nil, which the assignment of line 108 dereferences.
Next_(b, currentHash) ==
    LET d == DeserializeBlock(Get(b, currentHash))
    IN  [block |-> d.block, panic |-> d.err]

\* The blocks a caller's loop obtains by calling Next from currentHash until
\* it meets an empty PrevBlockHash (the loop of FindUnspentTransactions).
RECURSIVE IterBlocks(_, _)
IterBlocks(b, currentHash) ==
    LET n == Next_(b, currentHash)
    IN  IF n.panic
        THEN [blocks |-> <<>>, panic |-> TRUE]
        ELSE IF Len(n.block.PrevBlockHash) = 0
             THEN [blocks |-> <<n.block>>, panic |-> FALSE]
             ELSE LET rest == IterBlocks(b, n.block.PrevBlockHash)
                  IN  [blocks |-> <<n.block>> \o rest.blocks,
                       panic  |-> rest.panic]

\* append(m[key], value) on a map of slices
MapAppend(m, key, value) ==
    IF key \in DOMAIN m
    THEN [m EXCEPT ![key] = Append(@, value)]
    ELSE [k \in DOMAIN m \cup {key} |-> IF k = key THEN <<value>> ELSE m[k]]

\* lines 128-134: was output outIdx of txID recorded as spent?
WasSpent(spentTXOs, txID, outIdx) ==
    /\ txID \in DOMAIN spentTXOs
    /\ \E i \in 1..Len(spentTXOs[txID]) : spentTXOs[txID][i] = outIdx

\* lines 126-139: the Outputs loop, from position pos of tx.Vout (outIdx is
\* pos - 1): tx is appended once for every unspent output it has for address.
RECURSIVE OutputsLoop(_, _, _, _)
OutputsLoop(tx, address, spentTXOs, pos) ==
    IF pos > Len(tx.Vout)
    THEN <<>>
    ELSE (IF /\ ~WasSpent(spentTXOs, tx.ID, pos - 1)
             /\ CanBeUnlockedWith(tx.Vout[pos], address)
          THEN <<tx>>
          ELSE <<>>) \o OutputsLoop(tx, address, spentTXOs, pos + 1)

\* lines 141-148: the inputs of a non-coinbase transaction are recorded.
RECURSIVE InputsLoop(_, _, _, _)
InputsLoop(tx, address, spentTXOs, pos) ==
    IF pos > Len(tx.Vin)
    THEN spentTXOs
    ELSE InputsLoop(tx, address,
                    IF CanUnlockOutputWith(tx.Vin[pos], address)
                    THEN MapAppend(spentTXOs, tx.Vin[pos].Txid, tx.Vin[pos].Vout)
                    ELSE spentTXOs,
                    pos + 1)

\* lines 122-149: the loop over the transactions of one block.
RECURSIVE TransactionsLoop(_, _, _, _)
TransactionsLoop(transactions, address, acc, pos) ==
    IF pos > Len(transactions)
    THEN acc
    ELSE LET tx == transactions[pos]
             found == OutputsLoop(tx, address, acc.spentTXOs, 1)
             spent == IF IsCoinbase(tx)
                      THEN acc.spentTXOs
                      ELSE InputsLoop(tx, address, acc.spentTXOs, 1)
         IN  TransactionsLoop(transactions, address,
                              [unspentTXs |-> acc.unspentTXs \o found,
                               spentTXOs  |-> spent],
                              pos + 1)

\* lines 119-154: the loop over the blocks the iterator yields.
RECURSIVE BlocksLoop(_, _, _, _)
BlocksLoop(blocks, address, acc, pos) ==
    IF pos > Len(blocks)
    THEN acc
    ELSE BlocksLoop(blocks, address,
                    TransactionsLoop(blocks[pos].Transactions, address, acc, 1),
                    pos + 1)

EmptyMap == [k \in {} |-> <<>>]

FindUnspentTransactions(b, t, address) ==
    BlocksLoop(IterBlocks(b, t).blocks, address,
               [unspentTXs |-> <<>>, spentTXOs |-> EmptyMap], 1).unspentTXs

\* lines 165-169: the outputs of one transaction that address unlocks.
RECURSIVE UnlockableOutputs(_, _, _)
UnlockableOutputs(tx, address, pos) ==
    IF pos > Len(tx.Vout)
    THEN <<>>
    ELSE (IF CanBeUnlockedWith(tx.Vout[pos], address)
          THEN <<tx.Vout[pos]>>
          ELSE <<>>) \o UnlockableOutputs(tx, address, pos + 1)

RECURSIVE FindUTXOLoop(_, _, _)
FindUTXOLoop(unspentTransactions, address, pos) ==
    IF pos > Len(unspentTransactions)
    THEN <<>>
    ELSE UnlockableOutputs(unspentTransactions[pos], address, 1)
         \o FindUTXOLoop(unspentTransactions, address, pos + 1)

FindUTXO(b, t, address) ==
    FindUTXOLoop(FindUnspentTransactions(b, t, address), address, 1)

\* lines 181-195: the Work loop, at transaction txPos and output outPos.
\* done records the break out of Work.
RECURSIVE Work(_, _, _, _, _, _)
Work(unspentTXs, address, amount, acc, txPos, outPos) ==
    IF acc.done \/ txPos > Len(unspentTXs)
    THEN acc
    ELSE LET tx == unspentTXs[txPos]
         IN  IF outPos > Len(tx.Vout)
             THEN Work(unspentTXs, address, amount, acc, txPos + 1, 1)
             ELSE IF /\ CanBeUnlockedWith(tx.Vout[outPos], address)
                     /\ acc.accumulated < amount
                  THEN LET sum == acc.accumulated + tx.Vout[outPos].Value
                       IN  Work(unspentTXs, address, amount,
                                [accumulated    |-> sum,
                                 unspentOutputs |->
                                     MapAppend(acc.unspentOutputs, tx.ID, outPos - 1),
                                 done           |-> sum >= amount],
                                txPos, outPos + 1)
                  ELSE Work(unspentTXs, address, amount, acc, txPos, outPos + 1)

FindSpendableOutputs(b, t, address, amount) ==
    LET r == Work(FindUnspentTransactions(b, t, address), address, amount,
                  [accumulated |-> 0, unspentOutputs |-> EmptyMap, done |-> FALSE],
                  1, 1)
    IN  [accumulated |-> r.accumulated, unspentOutputs |-> r.unspentOutputs]

\* Blockchain.GetBlock: the block stored under hash, or an error.
GetBlock(b, hash) == DeserializeBlock(Get(b, hash))

----------------------------------------------------------------------------
\* The unspent-output index and transaction validation.

\* The transactions carried by the blocks.
TransactionsOf(blocks) ==
    UNION {{blocks[i].Transactions[j] : j \in 1..Len(blocks[i].Transactions)} :
              i \in 1..Len(blocks)}

\* Every <<txid, output index, output>> carried by the blocks.
OutputsOf(blocks) ==
    UNION {{<<tx.ID, k - 1, tx.Vout[k]>> : k \in 1..Len(tx.Vout)} :
              tx \in TransactionsOf(blocks)}

\* Every <<txid, output index>> a non-coinbase input of the blocks refers to.
InputsOf(blocks) ==
    UNION {{<<tx.Vin[k].Txid, tx.Vin[k].Vout>> : k \in 1..Len(tx.Vin)} :
              tx \in {t \in TransactionsOf(blocks) : ~IsCoinbase(t)}}

\* UTXOSet.Reindex: the outputs of the chain no input of the chain refers to.
Reindex(blocks) ==
    {o \in OutputsOf(blocks) : <<o[1], o[2]>> \notin InputsOf(blocks)}

\* Blockchain.VerifyTransaction: every input of a non-coinbase transaction
\* refers to an output the index holds as unspent, locked by the address
\* that signs the input.
VerifyTransaction(tx, utxo) ==
    \/ IsCoinbase(tx)
    \/ \A i \in 1..Len(tx.Vin) :
          \E o \in utxo : /\ o[1] = tx.Vin[i].Txid
                          /\ o[2] = tx.Vin[i].Vout
                          /\ CanBeUnlockedWith(o[3], tx.Vin[i].ScriptSig)

----------------------------------------------------------------------------
\* The state after CreateBlockchain(GenesisAddress), with the server built
\* on the handle it returns.

EmptyBucket == [k \in {} |-> Nil]

NoBlock == Nil

Genesis == genesisBlock(GenesisTx, 0)

\* lines 214-238: the genesis block and the tip entry, in one transaction.
CreateBlockchain ==
    Put(Put(EmptyBucket, Genesis.Hash, SerializeBlock(Genesis)), keyL, Genesis.Hash)

Init ==
    /\ bucket = CreateBlockchain
    /\ tip = Genesis.Hash
    /\ utxoSet = Reindex(<<Genesis>>)
    /\ memPool = EmptyBucket
    /\ miningAddress = ""
    /\ miningTxs = FALSE
    /\ minerPc = "select"
    /\ txs = <<>>
    /\ newBlock = NoBlock
    /\ taPc = "poll"
    /\ timeMsg = 0
    /\ now = 0
    /\ outbox = <<>>
    /\ mined = 0
    /\ fault = "none"
    /\ faults = 0
    /\ committedTip = Genesis.Hash
    /\ inflight = 0
    /\ poolAtStart = EmptyBucket
    /\ raisedInMining = FALSE
    /\ quitReceived = FALSE

ledgerVars == <<bucket, tip>>

historyVars == <<mined, fault, faults, committedTip, poolAtStart>>

mineVars == <<txs, newBlock, miningAddress>>

timeVars == <<timeMsg, raisedInMining>>

----------------------------------------------------------------------------
\* The environment: the clock, the peers' transactions, the stop signal.

\* The clock counts minutes.  Inside mineTxs only MineBlock reads it, and a
\* minute that passes before that read may as well pass before the trigger
\* is received; so the clock is advanced between executions of mineTxs.
Tick ==
    /\ now < MaxTime
    /\ minerPc = "select"
    /\ now' = now + 1
    /\ UNCHANGED <<ledgerVars, historyVars, mineVars, utxoSet, memPool,
                   miningTxs, minerPc, taPc, timeVars, quitReceived,
                   outbox, inflight>>

\* A connection handler takes a transaction into memPool.  It then signals
\* the miner on minerChan and stays blocked in the send until the miner
\* receives; so does whoever sends the stop signal on quitChan.  A
\* transaction memPool already holds under its identity is the same
\* transaction: putting it again changes nothing and is no step here.
SubmitTx(tx) ==
    /\ minerPc # "exited"
    /\ tx.ID \notin DOMAIN memPool
    /\ memPool' = Put(memPool, tx.ID, tx)
    /\ UNCHANGED <<ledgerVars, historyVars, mineVars, utxoSet, miningTxs,
                   minerPc, taPc, timeVars, now, quitReceived, outbox, inflight>>

----------------------------------------------------------------------------
\* StartMiner and mineTxs.

\* The orders in which a range over a map may visit the keys ids.
Orders(ids) ==
    {o \in [1..Cardinality(ids) -> ids] : \A i, j \in DOMAIN o : i # j => o[i] # o[j]}

\* The loop of lines 166-174 without the test of line 170.
VerifyLoop_unverified(pool, utxo, order, pos) ==
    [i \in 1..Len(order) |-> pool[order[i]]]

\* lines 166-174: the loop over memPool, visiting its keys in order; the
\* transactions that verify are collected.
RECURSIVE VerifyLoop(_, _, _, _)
VerifyLoop(pool, utxo, order, pos) ==
    IF pos > Len(order)
    THEN <<>>
    ELSE (IF VerifyTransaction(pool[order[pos]], utxo)
          THEN <<pool[order[pos]]>>
          ELSE <<>>) \o VerifyLoop(pool, utxo, order, pos + 1)

\* lines 179-187: the coinbase transaction is appended.
WithCoinbase(list, address) == Append(list, NewCoinbaseTX(address, ""))

\* lines 180-186: a mining address is created when none is configured.
MiningAddressOf(address) == IF address = "" THEN WalletAddress ELSE address

\* s.miningTxs = true; s.mineTxs(), up to the call of MineBlock.
StartMining ==
    /\ mined + faults + inflight < MaxAttempts
    /\ miningTxs' = TRUE
    /\ inflight' = inflight + 1
    /\ miningAddress' = MiningAddressOf(miningAddress)
    /\ \E order \in Orders(DOMAIN memPool) :
          txs' = WithCoinbase(VerifyLoop(memPool, utxoSet, order, 1), miningAddress')
    /\ poolAtStart' = memPool
    /\ minerPc' = "mine"
    /\ outbox' = <<>>
    /\ UNCHANGED <<newBlock, mined, fault, faults, committedTip>>

NoMining ==
    UNCHANGED <<miningTxs, inflight, mineVars, historyVars, minerPc, outbox>>

\* case msg := <-s.minerChan
\* A handler blocked in its send is the sender.  It has put its transaction
\* into memPool before; a handler that puts a transaction memPool already
\* holds leaves memPool as it is, so a sender may be there in any state.
RecvTx ==
    /\ minerPc = "select"
    /\ IF Cardinality(DOMAIN memPool) > memPoolThreshold
       THEN StartMining
       ELSE NoMining
    /\ UNCHANGED <<ledgerVars, utxoSet, memPool, taPc, timeVars, now, quitReceived>>

\* The case of line 130 with the test of line 131 never passing.
RecvTime_neverMines ==
    /\ minerPc = "select"
    /\ taPc = "blocked"
    /\ taPc' = "poll"
    /\ timeMsg' = 0
    /\ raisedInMining' = FALSE
    /\ NoMining
    /\ UNCHANGED <<ledgerVars, utxoSet, memPool, now, quitReceived>>

\* case msg := <-s.timeChan: the miner receives from the blocked sender.
RecvTime ==
    /\ minerPc = "select"
    /\ taPc = "blocked"
    /\ taPc' = "poll"
    /\ timeMsg' = 0
    /\ raisedInMining' = FALSE
    /\ IF timeMsg > minerTimeThreshold /\ ~miningTxs
       THEN StartMining
       ELSE NoMining
    /\ UNCHANGED <<ledgerVars, utxoSet, memPool, now, quitReceived>>

\* case <-s.quitChan: the break leaves the select, not the loop.  The stop
\* signal is sent to a running miner once.
RecvQuit ==
    /\ minerPc = "select"
    /\ ~quitReceived
    /\ quitReceived' = TRUE
    /\ UNCHANGED <<ledgerVars, historyVars, mineVars, utxoSet, memPool,
                   miningTxs, minerPc, taPc, timeVars, now, outbox,
                   inflight>>

\* The store failures a call of MineBlock may meet.
Faults == {"none", "serialize", "putBlock", "putTip", "commit"}

\* db.Update with the block put under the hash MineBlock read at line 38.
UpdateBucket_underLastHash(b, block, f) ==
    CASE f = "none"      -> Put(Put(b, block.PrevBlockHash, SerializeBlock(block)),
                                key1, block.Hash)
      [] f = "putTip"    -> Put(b, block.PrevBlockHash, SerializeBlock(block))
      [] f = "serialize" -> b
      [] f = "putBlock"  -> b
      [] f = "commit"    -> b

\* lines 48-68: what db.Update leaves in the bucket.  The closure returns
\* nil after a failed step, so the transaction commits what was put before
\* it; a failed commit rolls everything back.
UpdateBucket(b, block, f) ==
    CASE f = "none"      -> Put(Put(b, block.Hash, SerializeBlock(block)), key1, block.Hash)
      [] f = "putTip"    -> Put(b, block.Hash, SerializeBlock(block))
      [] f = "serialize" -> b
      [] f = "putBlock"  -> b
      [] f = "commit"    -> b

\* line 65: bc.tip is assigned once the closure has passed every step; the
\* commit comes after it.
UpdateTip(t, block, f) ==
    IF f \in {"none", "commit"} THEN block.Hash ELSE t

\* Blockchain.MineBlock(txs), called at line 189.
MineBlock(f) ==
    /\ minerPc = "mine"
    /\ f # "none" => faults < MaxFaults
    /\ LET lastHash == Get(bucket, key1)
       IN  newBlock' = NewBlock(lastHash, txs, now)
    /\ bucket' = UpdateBucket(bucket, newBlock', f)
    /\ tip' = UpdateTip(tip, newBlock', f)
    /\ committedTip' = IF f = "none" THEN newBlock'.Hash ELSE committedTip
    /\ mined' = IF f = "none" THEN mined + 1 ELSE mined
    /\ faults' = IF f = "none" THEN faults ELSE faults + 1
    /\ fault' = f
    /\ minerPc' = "reindex"
    /\ UNCHANGED <<utxoSet, memPool, miningAddress, miningTxs,
                   txs, taPc, timeVars, now, quitReceived, outbox,
                   inflight, poolAtStart>>

\* The process ends: both goroutines stop and what the server held in memory
\* is gone.  The store, and the index kept with it, stay as they are.
ProcessExit ==
    /\ minerPc' = "exited"
    /\ taPc' = "exited"
    /\ memPool' = EmptyBucket
    /\ miningTxs' = FALSE
    /\ txs' = <<>>
    /\ newBlock' = NoBlock
    /\ timeMsg' = 0
    /\ raisedInMining' = FALSE
    /\ quitReceived' = FALSE
    /\ inflight' = 0
    /\ outbox' = <<>>
    /\ fault' = "none"
    /\ poolAtStart' = EmptyBucket
    /\ UNCHANGED <<ledgerVars, utxoSet, miningAddress, now, mined, faults,
                   committedTip>>

\* line 190: s.utxoSet.Reindex() walks the chain from the tip; a block it
\* cannot read ends the process (the nil dereference of line 108).
ReindexStep ==
    /\ minerPc = "reindex"
    /\ \E walk \in {IterBlocks(bucket, tip)} :
           IF walk.panic
           THEN ProcessExit
           ELSE /\ minerPc' = "delete"
                /\ utxoSet' = Reindex(walk.blocks)
                /\ UNCHANGED <<ledgerVars, historyVars, mineVars, memPool,
                               miningTxs, taPc, timeVars, now, quitReceived, outbox,
                               inflight>>

\* lines 194-197: delete(s.memPool, txID) for every transaction of txs.
DeleteAll(pool, list) ==
    [id \in DOMAIN pool \ {list[i].ID : i \in 1..Len(list)} |-> pool[id]]

DeleteStep ==
    /\ minerPc = "delete"
    /\ memPool' = DeleteAll(memPool, txs)
    /\ minerPc' = "announce"
    /\ UNCHANGED <<ledgerVars, historyVars, mineVars, utxoSet, miningTxs,
                   taPc, timeVars, now, quitReceived, outbox, inflight>>

\* The loop of lines 199-203 without the test of line 200.
RECURSIVE Announcements_toAll(_, _, _)
Announcements_toAll(nodes, block, pos) ==
    IF pos > Len(nodes)
    THEN <<>>
    ELSE <<[to |-> nodes[pos].Address, kind |-> "block", items |-> <<block.Hash>>]>>
         \o Announcements_toAll(nodes, block, pos + 1)

\* lines 199-203: one block inventory for every known node but this one.
RECURSIVE Announcements(_, _, _)
Announcements(nodes, block, pos) ==
    IF pos > Len(nodes)
    THEN <<>>
    ELSE (IF nodes[pos].Address # nodeAddress
          THEN <<[to |-> nodes[pos].Address, kind |-> "block", items |-> <<block.Hash>>]>>
          ELSE <<>>) \o Announcements(nodes, block, pos + 1)

\* The return from mineTxs without the reset of lines 124 and 136.
FinishMining_flagKept ==
    /\ UNCHANGED miningTxs
    /\ minerPc' = "select"
    /\ inflight' = inflight - 1
    /\ txs' = <<>>
    /\ newBlock' = NoBlock

\* mineTxs returns: s.miningTxs = false, and the loop selects again.
FinishMining ==
    /\ miningTxs' = FALSE
    /\ minerPc' = "select"
    /\ inflight' = inflight - 1
    /\ txs' = <<>>
    /\ newBlock' = NoBlock

AnnounceStep ==
    /\ minerPc = "announce"
    /\ outbox' = outbox \o Announcements(knownNodes, newBlock, 1)
    /\ FinishMining
    /\ fault' = "none"
    /\ poolAtStart' = EmptyBucket
    /\ UNCHANGED <<ledgerVars, mined, faults, committedTip, miningAddress,
                   utxoSet, memPool, taPc, timeVars, now, quitReceived>>

----------------------------------------------------------------------------
\* timeAdjustment.

\* lines 210-223: one round of the loop when no mining is seen.  A tip that
\* cannot be fetched ends the process; an elapsed time above the threshold
\* takes the goroutine to the send of line 224.  The reads of miningTxs
\* and of the tip are not synchronised with the miner's writes; a read that
\* misses a write made just before gives the state this step would have
\* found just before that write, so the step reads the current values.
TimeAdjustment ==
    /\ taPc = "poll"
    /\ ~miningTxs
    /\ LET got == GetBlock(bucket, tip)
       IN  IF got.err
           THEN ProcessExit
           ELSE LET diff == now - got.block.Timestamp
                IN  /\ IF diff > monitorTimeThreshold /\ ~miningTxs
                       THEN /\ taPc' = "send"
                            /\ timeMsg' = diff
                            /\ UNCHANGED raisedInMining
                       ELSE UNCHANGED <<taPc, timeVars>>
                    /\ UNCHANGED <<ledgerVars, historyVars, mineVars,
                                   utxoSet, memPool, miningTxs, minerPc,
                                   now, quitReceived, outbox, inflight>>

\* line 224: s.timeChan <- diff.Minutes() begins and blocks until the miner
\* receives.  Nothing orders it with the miner, which may have started
\* mineTxs since the check of line 222.
RaiseTime ==
    /\ taPc = "send"
    /\ taPc' = "blocked"
    /\ raisedInMining' = miningTxs
    /\ UNCHANGED <<ledgerVars, historyVars, mineVars, utxoSet, memPool,
                   miningTxs, minerPc, timeMsg, now, quitReceived, outbox,
                   inflight>>

----------------------------------------------------------------------------
\* StartServer's signal handler (servers.go lines 57-65): on an interrupt the
\* process exits, whatever the miner is doing.
Terminate ==
    /\ minerPc # "exited"
    /\ ProcessExit

\* NewBlockchain: the process is started again on the stored ledger.

NewBlockchain ==
    /\ minerPc = "exited"
    /\ tip' = Get(bucket, key1)
    /\ minerPc' = "select"
    /\ taPc' = "poll"
    /\ UNCHANGED <<bucket, utxoSet, historyVars, mineVars, memPool,
                   miningTxs, timeVars, now, quitReceived, outbox, inflight>>

----------------------------------------------------------------------------

Next ==
    \/ Tick
    \/ \E tx \in Submitted : SubmitTx(tx)
    \/ RecvTx
    \/ RecvTime
    \/ RecvQuit
    \/ \E f \in Faults : MineBlock(f)
    \/ ReindexStep
    \/ DeleteStep
    \/ AnnounceStep
    \/ TimeAdjustment
    \/ RaiseTime
    \/ Terminate
    \/ NewBlockchain

Spec == Init /\ [][Next]_vars

\* The daemon left running: no stop signal, no interrupt, no store failure.
\* The StartMiner goroutine and the timeAdjustment goroutine are each
\* scheduled again and again, and a select whose timeChan case is ready
\* proceeds.  Whether a handler sends on minerChan is up to the peers.
MinerStep ==
    \/ RecvTime
    \/ MineBlock("none")
    \/ ReindexStep
    \/ DeleteStep
    \/ AnnounceStep

MonitorStep ==
    \/ TimeAdjustment
    \/ RaiseTime

LiveNext ==
    \/ Tick
    \/ \E tx \in Submitted : SubmitTx(tx)
    \/ RecvTx
    \/ MinerStep
    \/ MonitorStep

LiveSpec ==
    /\ Init
    /\ [][LiveNext]_vars
    /\ WF_vars(MinerStep)
    /\ WF_vars(MonitorStep)

----------------------------------------------------------------------------
\* Properties.

\* The chain as the iterator yields it from the tip the server holds.
Chain == IterBlocks(bucket, tip)

\* The blocks the bucket stores.
StoredBlocks ==
    {DeserializeBlock(bucket[k]).block : k \in DOMAIN bucket \ {keyL, key1}}

\* block is stored under its hash and the tip entry points at it.
Committed(block) ==
    /\ Get(bucket, block.Hash) = SerializeBlock(block)
    /\ Get(bucket, key1) = block.Hash

\* C1: on a ledger made by CreateBlockchain, after k MineBlock calls that
\* met no store failure, the walk from a tip that is the block committed
\* last yields k+1 blocks, each block's PrevBlockHash is the hash of the
\* block yielded next, and the walk ends at the genesis block.
C1_WalkYieldsEveryBlock ==
    (tip = committedTip /\ faults = 0) =>
        /\ ~Chain.panic
        /\ Len(Chain.blocks) = mined + 1
        /\ \A i \in 1..(Len(Chain.blocks) - 1) :
              Chain.blocks[i].PrevBlockHash = Chain.blocks[i + 1].Hash
        /\ Chain.blocks[Len(Chain.blocks)] = Genesis

\* C2: the stored blocks form no fork, here already when no store write has
\* failed: every block but the genesis block has its PrevBlockHash among
\* the stored hashes, and no two stored blocks have the same PrevBlockHash.
C2_NoFork ==
    faults = 0 =>
        /\ \A blk \in StoredBlocks :
              blk # Genesis => \E p \in StoredBlocks : p.Hash = blk.PrevBlockHash
        /\ \A b1, b2 \in StoredBlocks :
              b1 # b2 => b1.PrevBlockHash # b2.PrevBlockHash

\* C3: at most one execution of mineTxs is in flight, and whenever the loop
\* is back at its select no mining is in flight and the busy flag is down,
\* so the next trigger taken starts from Idle.
C3_OneMiningInFlight ==
    /\ inflight <= 1
    /\ minerPc = "select" => (inflight = 0 /\ ~miningTxs)
    /\ minerPc \in {"mine", "reindex", "delete", "announce"} =>
          (inflight = 1 /\ miningTxs)

\* An elapsed-time trigger waits in its send while a mining attempt that the
\* new-transaction trigger started is under way.
C3_Witness ==
    /\ minerPc = "delete"
    /\ inflight = 1
    /\ taPc = "send"
    /\ Cardinality(DOMAIN poolAtStart) > memPoolThreshold

\* C4: NewBlockchain, on a ledger whose MineBlock calls met no store
\* failure, returns a handle whose tip is the hash of the block committed
\* last (the genesis hash when none was mined).
C4_OpenLoadsCommittedTip ==
    [][(NewBlockchain /\ faults = 0) => tip' = committedTip]_vars

\* The identities of the mempool transactions mineTxs put into its block.
IncludedIds == {txs[i].ID : i \in 1..Len(txs)} \cap DOMAIN poolAtStart

\* C5: when mineTxs has done its removals, an entry it found in memPool is
\* gone only if its transaction is in the block and the block is committed,
\* and an entry whose transaction is not in the block is still there.
C5_RemovedOnlyWhenCommitted ==
    minerPc = "announce" =>
        \A id \in DOMAIN poolAtStart :
            /\ id \notin DOMAIN memPool => (id \in IncludedIds /\ Committed(newBlock))
            /\ id \notin IncludedIds => id \in DOMAIN memPool

\* C6: the block MineBlock hands back holds each mempool transaction that
\* verifies against the index at the start of the attempt, once, and after
\* them one coinbase transaction paying the mining address; while the
\* attempt runs, the transactions left out stay in memPool.
C6_BlockHoldsVerifiedAndCoinbase ==
    /\ minerPc = "reindex" =>
          LET list == newBlock.Transactions
              n == Len(list)
              valid == {id \in DOMAIN poolAtStart :
                           VerifyTransaction(poolAtStart[id], utxoSet)}
          IN  /\ n = Cardinality(valid) + 1
              /\ {list[i].ID : i \in 1..(n - 1)} = valid
              /\ \A i \in 1..(n - 1) : list[i] = poolAtStart[list[i].ID]
              /\ \A i \in 1..(n - 1) : ~IsCoinbase(list[i])
              /\ IsCoinbase(list[n])
              /\ miningAddress # ""
              /\ list[n].Vout = <<TXOutput(subsidy, miningAddress)>>
    /\ minerPc \in {"mine", "reindex", "delete", "announce"} =>
          \A id \in DOMAIN poolAtStart : id \notin IncludedIds => id \in DOMAIN memPool

\* No mempool transaction verified, and a block with the coinbase
\* transaction alone came back.
C6_Witness ==
    /\ minerPc = "reindex"
    /\ DOMAIN poolAtStart # {}
    /\ Len(newBlock.Transactions) = 1

\* The positions <<block, transaction, output>> of the chain whose output is
\* locked by address and referred to by no input of the chain.
UnspentPositions(address) ==
    LET blocks == Chain.blocks
    IN  {pos \in UNION {UNION {{<<i, j, k>> :
                                   k \in 1..Len(blocks[i].Transactions[j].Vout)} :
                               j \in 1..Len(blocks[i].Transactions)} :
                        i \in 1..Len(blocks)} :
            LET tx == blocks[pos[1]].Transactions[pos[2]]
            IN  /\ CanBeUnlockedWith(tx.Vout[pos[3]], address)
                /\ <<tx.ID, pos[3] - 1>> \notin InputsOf(blocks)}

OutputAt(pos) == Chain.blocks[pos[1]].Transactions[pos[2]].Vout[pos[3]]

\* C7: FindUTXO(address) reports every unspent output of address, and
\* nothing else, once: each output value occurs in the result as often as
\* unspent outputs of the address carry it.
C7_FindUTXOExact ==
    ~Chain.panic =>
        \A address \in Addresses :
            LET result == FindUTXO(bucket, tip, address)
                unspent == UnspentPositions(address)
            IN  /\ Len(result) = Cardinality(unspent)
                /\ \A i \in 1..Len(result) :
                      Cardinality({j \in 1..Len(result) : result[j] = result[i]})
                          = Cardinality({pos \in unspent : OutputAt(pos) = result[i]})

\* The <<txid, output index>> pairs a result of FindSpendableOutputs selects,
\* one for every place of its lists.
SelectedPlaces(unspentOutputs) ==
    UNION {{<<txid, i>> : i \in 1..Len(unspentOutputs[txid])} :
              txid \in DOMAIN unspentOutputs}

\* The value of output idx of the transaction txid of the chain.
ValueOf(txid, idx) ==
    LET tx == CHOOSE t \in TransactionsOf(Chain.blocks) : t.ID = txid
    IN  tx.Vout[idx + 1].Value

RECURSIVE SumValues(_, _)
SumValues(unspentOutputs, places) ==
    IF places = {}
    THEN 0
    ELSE LET p == CHOOSE q \in places : TRUE
         IN  ValueOf(p[1], unspentOutputs[p[1]][p[2]])
             + SumValues(unspentOutputs, places \ {p})

\* C8: FindSpendableOutputs(address, amount) selects only unspent outputs of
\* address, none of them twice, accumulates the sum of their values, stops
\* once the amount is met (without some selected output it would not be
\* met), and has selected every unspent output of address when it returns
\* less than the amount.
C8_SpendableOutputsExact ==
    ~Chain.panic =>
        \A address \in Addresses, amount \in 1..MaxAmount :
            LET r == FindSpendableOutputs(bucket, tip, address, amount)
                sel == r.unspentOutputs
                places == SelectedPlaces(sel)
                unspent == {<<o[1], o[2]>> : o \in
                               {u \in Reindex(Chain.blocks) :
                                   CanBeUnlockedWith(u[3], address)}}
            IN  /\ \A p \in places : <<p[1], sel[p[1]][p[2]]>> \in unspent
                /\ \A p, q \in places :
                      (p # q /\ p[1] = q[1]) => sel[p[1]][p[2]] # sel[q[1]][q[2]]
                /\ r.accumulated = SumValues(sel, places)
                /\ r.accumulated >= amount =>
                      \E p \in places :
                          r.accumulated - ValueOf(p[1], sel[p[1]][p[2]]) < amount
                /\ r.accumulated < amount =>
                      \A u \in unspent :
                          \E p \in places : <<p[1], sel[p[1]][p[2]]>> = u

\* The step in which MineBlock runs and meets a store failure.
FailedMineBlock == minerPc = "mine" /\ minerPc' = "reindex" /\ fault' # "none"

\* C9: a MineBlock call that meets a store failure commits nothing and
\* leaves the stored tip entry and the tip in memory as they were.
C9_FailedWriteCommitsNothing ==
    [][FailedMineBlock => (bucket' = bucket /\ tip' = tip)]_vars

\* C10: once MineBlock has met a store failure, the steps of mineTxs that
\* follow remove nothing from memPool and announce no block hash.
C10_FailureLeavesMemPoolAndPeers ==
    [][((DeleteStep \/ AnnounceStep) /\ fault # "none") =>
          (DOMAIN memPool \subseteq DOMAIN memPool' /\ outbox' = outbox)]_vars

\* C11: a trigger raised while mineTxs runs is dropped.  For the time
\* trigger: when the send on timeChan began while miningTxs was set, the
\* miner that receives it afterwards starts no mining attempt.
C11_TriggerInMiningDropped ==
    [][(RecvTime /\ raisedInMining) => minerPc' = "select"]_vars

\* C12: a time trigger that timeAdjustment raised and the miner receives at
\* its select, where no mining runs, starts a mining attempt: what passes
\* the threshold of the monitor passes the threshold of the miner.
C12_RaisedTimeTriggerMines ==
    [][RecvTime => minerPc' = "mine"]_vars

\* C13: a step of timeAdjustment that does not end the process leaves the
\* stored blocks, both tips, memPool and the busy flag as they were, and
\* its send on timeChan begins only while no mining runs.
C13_MonitorOnlySignals ==
    [][((TimeAdjustment \/ RaiseTime) /\ taPc' # "exited") =>
          /\ bucket' = bucket
          /\ tip' = tip
          /\ memPool' = memPool
          /\ miningTxs' = miningTxs
          /\ minerPc' = minerPc
          /\ taPc' = "blocked" => ~miningTxs]_vars

\* C14: the announcements of a mining attempt whose MineBlock met no store
\* failure are block inventories carrying the hash of the block just
\* committed and nothing else, one to every known node whose address is not
\* this node's, none to this node's address.
C14_AnnouncedToEveryPeerButSelf ==
    [][(AnnounceStep /\ fault = "none") =>
          /\ \A i \in 1..Len(outbox') :
                /\ outbox'[i].kind = "block"
                /\ outbox'[i].items = <<committedTip>>
                /\ outbox'[i].to # nodeAddress
          /\ \A n \in 1..Len(knownNodes) :
                knownNodes[n].Address # nodeAddress =>
                    Cardinality({i \in 1..Len(outbox') :
                                    outbox'[i].to = knownNodes[n].Address}) = 1]_vars

\* A block was committed and its hash went out to the two other nodes.
C14_Witness ==
    /\ minerPc = "select"
    /\ mined >= 1
    /\ Len(outbox) = 2
    /\ outbox[1].items = <<committedTip>>

C16_ReadFailsExplicitly ==
    DeserializeBlock(Get(bucket, tip)).err => ~Next_(bucket, tip).panic

\* The inputs of the non-coinbase transactions of the stored blocks, each
\* with its place: <<block hash, transaction, input, <<txid, output index>>>>.
SpendingInputs ==
    UNION {UNION {{<<blk.Hash, j, k, <<blk.Transactions[j].Vin[k].Txid,
                                      blk.Transactions[j].Vin[k].Vout>>>> :
                      k \in 1..Len(blk.Transactions[j].Vin)} :
                  j \in {t \in 1..Len(blk.Transactions) :
                            ~IsCoinbase(blk.Transactions[t])}} :
           blk \in StoredBlocks}

\* C17: no output is spent twice in the stored blocks: two inputs at
\* different places never refer to the same <<txid, output index>>.
C17_NoOutputSpentTwice ==
    \A i1, i2 \in SpendingInputs : i1 # i2 => i1[4] # i2[4]

\* C18: mineTxs announces a block only after the block is committed with
\* the tip entry pointing at it and the index is rebuilt from a chain that
\* holds it; it comes to the announcements from the removals, which leave
\* none of the block's transactions in memPool, and to the removals from
\* the rebuild of the index.
C18_AnnouncedAfterCommitReindexRemoval ==
    [][
          /\ AnnounceStep =>
                /\ Committed(newBlock)
                /\ ~Chain.panic
                /\ \E n \in 1..Len(Chain.blocks) : Chain.blocks[n] = newBlock
                /\ utxoSet = Reindex(Chain.blocks)
          /\ (minerPc # "announce" /\ minerPc' = "announce") =>
                /\ minerPc = "delete"
                /\ \A n \in 1..Len(newBlock.Transactions) :
                      newBlock.Transactions[n].ID \notin DOMAIN memPool'
          /\ (minerPc # "delete" /\ minerPc' = "delete") => minerPc = "reindex"
      ]_vars

\* C19: once the miner has received the stop signal it receives no trigger
\* any more, neither to start a mining attempt on a new transaction nor to
\* take a value from timeChan.
C19_NoTriggerAfterStop ==
    [][quitReceived => ~(RecvTx \/ RecvTime)]_vars

\* The minutes since the timestamp of the block at the tip.
Elapsed == now - GetBlock(bucket, tip).block.Timestamp

\* C20: with both goroutines scheduled fairly, no stop signal and no store
\* failure, a tip more than minerTimeThreshold minutes old leads to a
\* further committed block, and a timeAdjustment blocked in its send is
\* received from; both as long as the model has a mining attempt left.
\* A further block counted in mined is stored, and the tip moved to it.
C20_OldTipLeadsToBlock ==
    /\ \A k \in 0..(MaxAttempts - 1) :
          (mined = k /\ Elapsed > minerTimeThreshold) ~> (mined > k)
    /\ [][mined' > mined =>
            (tip' # tip /\ tip' = newBlock'.Hash /\ Committed(newBlock)')]_vars
    /\ (taPc = "blocked" /\ mined < MaxAttempts)
          ~> (taPc = "poll" \/ mined = MaxAttempts)

\* The time trigger started a mining attempt on a memPool too small to
\* start one, and the block is committed.
C20_Witness ==
    /\ minerPc = "reindex"
    /\ Cardinality(DOMAIN poolAtStart) <= memPoolThreshold
    /\ mined >= 1
    /\ faults = 0
    /\ ~quitReceived

====
